---- MODULE Spec2Model ----
(***************************************************************************)
(* A model of src/main.py of terraform-aws-pipeline-set-version: the two   *)
(* version resolvers (get_ecr_versions, get_s3_artifact_versions), the     *)
(* role assumption loop (assume_role), the publisher (set_ssm_parameters,  *)
(* update_parameterstore) and the entry point (lambda_handler).            *)
(*                                                                         *)
(* Python strings are TLA+ strings, Python lists are sequences, Python     *)
(* dicts with string keys are functions whose domain is the key set.       *)
(***************************************************************************)
EXTENDS Integers, Sequences, FiniteSets, TLC

VARIABLES
    pc,                 \* position of the running call
    applications,       \* resolver argument: name -> [tag_filters]
    bucket,             \* the S3 bucket: objects in listing (key) order
    s3_prefix,          \* resolver argument
    allowed_key_patterns, \* resolver argument
    registry,           \* the ECR registry: repositories and their images
    versions,           \* result of the resolver call
    raised,             \* exception that left the running call ("" = none)
    event,              \* lambda_handler's event
    lambda_versions, frontend_versions, ecr_versions,
    credentials,        \* None or the credentials assume_role returned
    pending,            \* versions items set_ssm_parameters still has to write
    puts,               \* put_parameter calls attempted, in order
    store,              \* the parameter store: name -> value
    role_arn,           \* assume_role's role_arn
    assuming_role,      \* assume_role's loop flag
    failures,           \* number of ClientErrors caught so far (saturates)
    sleeps,             \* number of time.sleep calls made so far (saturates)
    waited              \* seconds slept so far (saturates with sleeps)

vars == << pc, applications, bucket, s3_prefix, allowed_key_patterns, registry,
           versions, raised, event, lambda_versions, frontend_versions,
           ecr_versions, credentials, pending, puts, store, role_arn,
           assuming_role, failures, sleeps, waited >>

resolverVars == << applications, bucket, s3_prefix, allowed_key_patterns,
                   registry, versions >>
handlerVars == << event, lambda_versions, frontend_versions, ecr_versions,
                  pending, puts, store >>
assumeVars == << role_arn, assuming_role, failures, sleeps, waited >>

(***************************************************************************)
(* Bounds of the model.                                                    *)
(***************************************************************************)
MaxObjects == 2         \* objects in the bucket
MaxTime == 2            \* LastModified / imagePushedAt range over 1..MaxTime
PageSize == 2           \* objects list_objects_v2 returns per page
MaxImages == 2          \* images in a repository
MaxAttempts == 4        \* the counters of assume_role saturate here

(***************************************************************************)
(* Python string and dict operations used by the code.                     *)
(***************************************************************************)
SHA1 == "-SHA1"

\* s.endswith(suffix)
EndsWith(s, suffix) ==
    /\ Len(s) >= Len(suffix)
    /\ SubSeq(s, Len(s) - Len(suffix) + 1, Len(s)) = suffix

\* s.startswith(prefix)
StartsWith(s, prefix) ==
    /\ Len(s) >= Len(prefix)
    /\ SubSeq(s, 1, Len(prefix)) = prefix

\* s.split(sep)[0]: what precedes the first occurrence of sep (all of s if none)
SplitFirst(s, sep) ==
    LET hits == { i \in 1..Len(s) : /\ i + Len(sep) - 1 <= Len(s)
                                    /\ SubSeq(s, i, i + Len(sep) - 1) = sep }
    IN  IF hits = {} THEN s
        ELSE LET first == CHOOSE i \in hits : \A j \in hits : i <= j
             IN  SubSeq(s, 1, first - 1)

UpperCase == "ABCDEFGHIJKLMNOPQRSTUVWXYZ"
LowerCase == "abcdefghijklmnopqrstuvwxyz"
Digits == "0123456789"

LowerChar(c) ==
    IF \E i \in 1..26 : SubSeq(UpperCase, i, i) = c
    THEN LET i == CHOOSE i \in 1..26 : SubSeq(UpperCase, i, i) = c
         IN  SubSeq(LowerCase, i, i)
    ELSE c

\* s.lower()
RECURSIVE Lower(_)
Lower(s) ==
    IF Len(s) = 0 THEN ""
    ELSE LowerChar(SubSeq(s, 1, 1)) \o Lower(SubSeq(s, 2, Len(s)))

\* x in xs, for a list xs
InList(x, xs) == \E i \in 1..Len(xs) : xs[i] = x

\* the empty dict
EmptyDict == [n \in {} |-> ""]

\* d[k] = v on a dict
DictPut(d, k, v) == [n \in DOMAIN d \cup {k} |-> IF n = k THEN v ELSE d[n]]

\* d[key]: a dict key is unhashable (TypeError); a missing key is a KeyError
GetItem(d, key) ==
    IF key.kind = "dict" THEN [exc |-> "TypeError", value |-> ""]
    ELSE IF key.value \notin DOMAIN d THEN [exc |-> "KeyError", value |-> ""]
    ELSE [exc |-> "", value |-> d[key.value]]

(***************************************************************************)
(* re.search(pattern, key) for the patterns the code uses,                 *)
(*   [a-z0-9]{7}\.(zip|jar)$   /[a-z0-9]{7,}\.(zip|jar)$   /[a-z0-9]{7,}\.zip$ *)
(* A pattern is [slash, min, exact, exts]: an optional "/", at least (or   *)
(* exactly) min characters of [a-z0-9], a dot, one of exts, end of key.    *)
(* Keys hold no newline, so $ is the end of the key.                       *)
(***************************************************************************)
DefaultPatterns == << [slash |-> FALSE, min |-> 7, exact |-> TRUE, exts |-> {"zip", "jar"}] >>
LambdaPatterns == << [slash |-> TRUE, min |-> 7, exact |-> FALSE, exts |-> {"zip", "jar"}] >>
FrontendPatterns == << [slash |-> TRUE, min |-> 7, exact |-> FALSE, exts |-> {"zip"}] >>

\* the characters of the class [a-z0-9]
LowerAlnum ==
    { SubSeq(LowerCase, i, i) : i \in 1..26 } \cup { SubSeq(Digits, i, i) : i \in 1..10 }

IsLowerAlnum(c) == c \in LowerAlnum

\* length of the longest suffix of s made of [a-z0-9]
RECURSIVE TrailingRun(_)
TrailingRun(s) ==
    IF Len(s) = 0 THEN 0
    ELSE IF IsLowerAlnum(SubSeq(s, Len(s), Len(s)))
         THEN 1 + TrailingRun(SubSeq(s, 1, Len(s) - 1))
         ELSE 0

ReSearch(pattern, key) ==
    \E ext \in pattern.exts :
        /\ EndsWith(key, "." \o ext)
        /\ LET stem == SubSeq(key, 1, Len(key) - Len(ext) - 1)
               run == TrailingRun(stem)
           IN  IF pattern.slash
               THEN /\ IF pattern.exact THEN run = pattern.min ELSE run >= pattern.min
                    /\ Len(stem) > run
                    /\ SubSeq(stem, Len(stem) - run, Len(stem) - run) = "/"
               ELSE run >= pattern.min

(***************************************************************************)
(* get_s3_artifact_versions                                                *)
(***************************************************************************)
\* s3.list_objects_v2(Bucket, Prefix[, ContinuationToken]): one page of the
\* objects under the prefix; no "Contents" key when there is none.  The
\* continuation token is the number of objects already returned.
ListObjectsV2(bkt, prefix, token) ==
    LET idx == { i \in 1..Len(bkt) : StartsWith(bkt[i].Key, prefix) }
        RECURSIVE Under(_)
        Under(i) == IF i > Len(bkt) THEN << >>
                    ELSE IF i \in idx THEN << bkt[i] >> \o Under(i + 1)
                    ELSE Under(i + 1)
        all == Under(1)
        last == IF token + PageSize < Len(all) THEN token + PageSize ELSE Len(all)
    IN  [ HasContents |-> Len(all) > token,
          Contents |-> SubSeq(all, token + 1, last),
          IsTruncated |-> last < Len(all),
          NextContinuationToken |-> last ]

\* lines 206-223: the first page, then every further page appended
RECURSIVE MorePages(_, _, _, _)
MorePages(bkt, prefix, response, objects) ==
    IF response.IsTruncated
    THEN LET next == ListObjectsV2(bkt, prefix, response.NextContinuationToken)
         IN  MorePages(bkt, prefix, next, objects \o next.Contents)
    ELSE objects

\* a resolver that forgets to sort
SortNewestFirst_Unsorted(objs) == objs

\* sorted(objs, key=LastModified, reverse=True): stable, newest first
RECURSIVE SortNewestFirst(_)
SortNewestFirst(objs) ==
    IF Len(objs) = 0 THEN << >>
    ELSE LET rest == SortNewestFirst(SubSeq(objs, 1, Len(objs) - 1))
             x == objs[Len(objs)]
             \* x goes after every element at least as new as x
             k == Cardinality({ i \in 1..Len(rest) : rest[i].LastModified >= x.LastModified })
         IN  SubSeq(rest, 1, k) \o << x >> \o SubSeq(rest, k + 1, Len(rest))

\* lines 258-262: the decoded "tags" metadata, or None (here the empty list)
TagsOf(obj) == IF obj.has_tags THEN obj.tags ELSE << >>

\* lines 263-267: the acceptance condition
Accepts(tags, artifact_tag_filters) ==
    /\ Len(tags) > 0
    /\ \E i \in 1..Len(tags) : EndsWith(tags[i], SHA1)
    /\ \A j \in 1..Len(artifact_tag_filters) : InList(artifact_tag_filters[j], tags)

\* lines 268-275: the first tag ending in -SHA1, cut at the first "-SHA1"
VersionOfTags(tags) ==
    LET hits == { i \in 1..Len(tags) : EndsWith(tags[i], SHA1) }
        first == CHOOSE i \in hits : \A j \in hits : i <= j
    IN  SplitFirst(tags[first], SHA1)

\* a scan that looks at the newest object only
ScanObjects_NewestOnly(sorted_objects, i, artifact_tag_filters) ==
    IF i > Len(sorted_objects) THEN [found |-> FALSE, version |-> "", key |-> ""]
    ELSE LET tags == TagsOf(sorted_objects[i])
         IN  IF /\ Accepts(tags, artifact_tag_filters)
                /\ VersionOfTags(tags) # ""
             THEN [found |-> TRUE, version |-> VersionOfTags(tags),
                   key |-> sorted_objects[i].Key]
             ELSE [found |-> FALSE, version |-> "", key |-> ""]

\* lines 251-278: the scan of the sorted objects, from position i
RECURSIVE ScanObjects(_, _, _)
ScanObjects(sorted_objects, i, artifact_tag_filters) ==
    IF i > Len(sorted_objects) THEN [found |-> FALSE, version |-> "", key |-> ""]
    ELSE LET tags == TagsOf(sorted_objects[i])
         IN  IF /\ Accepts(tags, artifact_tag_filters)
                /\ VersionOfTags(tags) # ""
             THEN [found |-> TRUE, version |-> VersionOfTags(tags),
                   key |-> sorted_objects[i].Key]
             ELSE ScanObjects(sorted_objects, i + 1, artifact_tag_filters)

\* lines 230-238
ValidObjects(objects, patterns) ==
    LET RECURSIVE Keep(_)
        Keep(i) == IF i > Len(objects) THEN << >>
                   ELSE IF \E p \in 1..Len(patterns) : ReSearch(patterns[p], objects[i].Key)
                        THEN << objects[i] >> \o Keep(i + 1)
                        ELSE Keep(i + 1)
    IN  Keep(1)

\* lines 204-278: one iteration of the loop over applications.items()
ResolveS3(apps, bkt, prefix_arg, patterns, application_name) ==
    LET artifact_tag_filters == apps[application_name].tag_filters
        prefix == (IF prefix_arg # "" THEN prefix_arg \o "/" ELSE "") \o application_name \o "/"
        response == ListObjectsV2(bkt, prefix, 0)
    IN  IF ~response.HasContents
        THEN [found |-> FALSE, version |-> "", key |-> ""]
        ELSE LET objects == MorePages(bkt, prefix, response, response.Contents)
                 sorted_objects == SortNewestFirst(ValidObjects(objects, patterns))
             IN  ScanObjects(sorted_objects, 1, artifact_tag_filters)

\* lines 176-281: iterations are independent and write distinct keys of
\* versions, so the result is the dict of the applications that resolved
get_s3_artifact_versions(apps, bkt, prefix_arg, patterns) ==
    LET resolved == [ a \in DOMAIN apps |-> ResolveS3(apps, bkt, prefix_arg, patterns, a) ]
    IN  [ a \in { n \in DOMAIN apps : resolved[n].found } |-> resolved[a].version ]

(***************************************************************************)
(* get_ecr_versions                                                        *)
(***************************************************************************)
\* client.describe_images(repositoryName, filter TAGGED[, imageIds]): the
\* tagged images of the repository; with imageIds, the images carrying one of
\* the requested tags, and ImageNotFoundException when a requested tag is on
\* no image
DescribeImages(reg, name, image_tag_filters) ==
    LET images == reg.images[name]
        Has(i, t) == InList(t, images[i].imageTags)
        RECURSIVE Keep(_)
        Keep(i) == IF i > Len(images) THEN << >>
                   ELSE IF \E j \in 1..Len(image_tag_filters) : Has(i, image_tag_filters[j])
                        THEN << images[i] >> \o Keep(i + 1)
                        ELSE Keep(i + 1)
    IN  IF Len(image_tag_filters) = 0
        THEN [exc |-> "", imageDetails |-> images]
        ELSE IF \E j \in 1..Len(image_tag_filters) :
                    \A i \in 1..Len(images) : ~Has(i, image_tag_filters[j])
             THEN [exc |-> "ImageNotFoundException", imageDetails |-> << >>]
             ELSE [exc |-> "", imageDetails |-> Keep(1)]

\* lines 105-112
FilteredImages(images) ==
    LET RECURSIVE Keep(_)
        Keep(i) == IF i > Len(images) THEN << >>
                   ELSE IF \E t \in 1..Len(images[i].imageTags) :
                              EndsWith(images[i].imageTags[t], SHA1)
                        THEN << images[i] >> \o Keep(i + 1)
                        ELSE Keep(i + 1)
    IN  Keep(1)

\* sorted(images, key=imagePushedAt): stable, oldest first
RECURSIVE SortOldestFirst(_)
SortOldestFirst(images) ==
    IF Len(images) = 0 THEN << >>
    ELSE LET rest == SortOldestFirst(SubSeq(images, 1, Len(images) - 1))
             x == images[Len(images)]
             k == Cardinality({ i \in 1..Len(rest) : rest[i].imagePushedAt <= x.imagePushedAt })
         IN  SubSeq(rest, 1, k) \o << x >> \o SubSeq(rest, k + 1, Len(rest))

\* lines 125-129
Sha1Tags(image) ==
    LET RECURSIVE Cut(_)
        Cut(t) == IF t > Len(image.imageTags) THEN << >>
                  ELSE IF EndsWith(image.imageTags[t], SHA1)
                       THEN << SplitFirst(image.imageTags[t], SHA1) >> \o Cut(t + 1)
                       ELSE Cut(t + 1)
    IN  Cut(1)

\* line 81: the subscript applications[repo] uses the repository dict as key
RepoKey(repo) == [kind |-> "dict", value |-> repo]

\* lines 79-142: the loop over the repositories, from position i
RECURSIVE EcrLoop(_, _, _, _, _)
EcrLoop(apps, reg, repositories, i, acc) ==
    IF i > Len(repositories) THEN [exc |-> "", versions |-> acc]
    ELSE
      LET repo == repositories[i]
          name == repo.repositoryName
          item == GetItem(apps, RepoKey(repo))
      IN  IF item.exc # "" THEN [exc |-> item.exc, versions |-> EmptyDict]
          ELSE
            LET image_tag_filters == item.value.tag_filters
                described == DescribeImages(reg, name, image_tag_filters)
                filtered_images == FilteredImages(described.imageDetails)
                sorted_images == SortOldestFirst(filtered_images)
                most_recent_image == sorted_images[Len(sorted_images)]
                most_recent_image_sha1_tags == Sha1Tags(most_recent_image)
            IN  IF described.exc # "" THEN EcrLoop(apps, reg, repositories, i + 1, acc)
                ELSE IF Len(filtered_images) = 0
                     THEN EcrLoop(apps, reg, repositories, i + 1, acc)
                ELSE IF Len(most_recent_image_sha1_tags) > 1
                     THEN EcrLoop(apps, reg, repositories, i + 1, acc)
                ELSE EcrLoop(apps, reg, repositories, i + 1,
                             DictPut(acc, name, most_recent_image_sha1_tags[1]))

\* lines 69-76
MatchingRepositories(apps, reg) ==
    LET RECURSIVE Keep(_)
        Keep(i) == IF i > Len(reg.repositories) THEN << >>
                   ELSE IF reg.repositories[i].repositoryName \in DOMAIN apps
                        THEN << reg.repositories[i] >> \o Keep(i + 1)
                        ELSE Keep(i + 1)
    IN  Keep(1)

\* lines 53-145: [exc, versions]; exc # "" when an exception leaves the call
get_ecr_versions(apps, reg) ==
    EcrLoop(apps, reg, MatchingRepositories(apps, reg), 1, EmptyDict)

(***************************************************************************)
(* Inputs of the resolver specifications.                                  *)
(***************************************************************************)
None == "None"

\* S3 keys, in the order list_objects_v2 returns them
S3Keys == << "app/x/aaa1111.zip", "app/x/bbb2222.zip", "app/x/notes.txt", "y/ccc3333.jar" >>

\* the decoded "tags" metadata of an object (has_tags FALSE: no such metadata)
S3Metadata ==
    { [has_tags |-> FALSE, tags |-> << >>],
      [has_tags |-> TRUE, tags |-> << "other" >>],
      [has_tags |-> TRUE, tags |-> << "master-branch-SHA1" >>],
      [has_tags |-> TRUE, tags |-> << "aaa1111-SHA1", "master-branch" >>],
      [has_tags |-> TRUE, tags |-> << "-SHA1", "bbb2222-SHA1" >>],
      [has_tags |-> TRUE, tags |-> << "rc-SHA1-2-SHA1" >>] }

Times == 1..MaxTime

\* the buckets of at most MaxObjects objects, each a sequence in key order
Buckets ==
    LET KeySets == { K \in SUBSET (1..Len(S3Keys)) : Cardinality(K) <= MaxObjects }
        RECURSIVE InOrder(_, _, _)
        InOrder(K, f, i) ==
            IF i > Len(S3Keys) THEN << >>
            ELSE IF i \in K
                 THEN << [Key |-> S3Keys[i], LastModified |-> f[i].t,
                          has_tags |-> f[i].m.has_tags, tags |-> f[i].m.tags] >>
                      \o InOrder(K, f, i + 1)
                 ELSE InOrder(K, f, i + 1)
    IN  UNION { { InOrder(K, f, 1) : f \in [K -> [t : Times, m : S3Metadata]] } : K \in KeySets }

\* the applications dicts of the S3 resolver
S3Applications ==
    LET ForX == { [tag_filters |-> << >>], [tag_filters |-> << "master-branch" >>] }
        ForY == { [tag_filters |-> << >>] }
    IN  UNION { { f \in [N -> ForX \cup ForY] : \A n \in N : f[n] \in (IF n = "x" THEN ForX ELSE ForY) }
                : N \in SUBSET {"x", "y"} }

EcrImages ==
    [ imageTags : { << "latest" >>, << "abc1234-SHA1", "master-branch" >>,
                    << "def5678-SHA1", "fed8765-SHA1" >> },
      imagePushedAt : Times ]

RECURSIVE SeqsUpTo(_, _)
SeqsUpTo(S, n) ==
    IF n = 0 THEN { << >> }
    ELSE LET shorter == SeqsUpTo(S, n - 1)
         IN  shorter \cup { Append(q, x) : q \in shorter, x \in S }

\* the registries: the repositories describe_repositories returns, and the
\* images of each
Registries ==
    [ repositories : { << >>, << [repositoryName |-> "x"] >>,
                       << [repositoryName |-> "y"] >>,
                       << [repositoryName |-> "x"], [repositoryName |-> "y"] >> },
      images : [ {"x", "y"} -> SeqsUpTo(EcrImages, MaxImages) ] ]

EcrApplications ==
    UNION { [N -> { [tag_filters |-> << >>] }] : N \in SUBSET {"x", "y"} }
    \cup { [n \in {"x"} |-> [tag_filters |-> << "master-branch" >>]] }

NoEvent == [ssm_prefix |-> ""]
NoRegistry == [repositories |-> << >>, images |-> EmptyDict]

\* the variables a specification does not use
IdleResolver ==
    /\ applications = EmptyDict /\ bucket = << >> /\ s3_prefix = ""
    /\ allowed_key_patterns = << >> /\ registry = NoRegistry /\ versions = EmptyDict
IdleHandler ==
    /\ event = NoEvent /\ lambda_versions = EmptyDict /\ frontend_versions = EmptyDict
    /\ ecr_versions = EmptyDict /\ pending = {} /\ puts = << >> /\ store = EmptyDict
IdleAssume ==
    /\ role_arn = "" /\ assuming_role = FALSE /\ failures = 0 /\ sleeps = 0 /\ waited = 0

(***************************************************************************)
(* SpecS3: one call of get_s3_artifact_versions.                           *)
(***************************************************************************)
InitS3 ==
    /\ pc = "s3_call" /\ raised = "" /\ credentials = None
    /\ bucket \in Buckets
    /\ applications = EmptyDict /\ s3_prefix = "" /\ allowed_key_patterns = << >>
    /\ registry = NoRegistry /\ versions = EmptyDict
    /\ IdleHandler /\ IdleAssume

\* the call, with its arguments
CallGetS3 ==
    /\ pc = "s3_call"
    /\ \E apps \in S3Applications, prefix_arg \in {"app", ""},
          patterns \in {LambdaPatterns, FrontendPatterns} :
        /\ applications' = apps
        /\ s3_prefix' = prefix_arg
        /\ allowed_key_patterns' = patterns
        /\ versions' = get_s3_artifact_versions(apps, bucket, prefix_arg, patterns)
    /\ pc' = "returned"
    /\ UNCHANGED << bucket, registry, raised, credentials >>
    /\ UNCHANGED handlerVars /\ UNCHANGED assumeVars

NextS3 == CallGetS3

SpecS3 == InitS3 /\ [][NextS3]_vars

(***************************************************************************)
(* SpecEcr: one call of get_ecr_versions.                                  *)
(***************************************************************************)
InitEcr ==
    /\ pc = "ecr_call" /\ raised = "" /\ credentials = None
    /\ applications \in EcrApplications
    /\ registry \in Registries
    /\ bucket = << >> /\ s3_prefix = "" /\ allowed_key_patterns = << >>
    /\ versions = EmptyDict
    /\ IdleHandler /\ IdleAssume

CallGetEcr ==
    /\ pc = "ecr_call"
    /\ LET result == get_ecr_versions(applications, registry)
       IN  /\ raised' = result.exc
           /\ versions' = result.versions
           /\ pc' = IF result.exc = "" THEN "returned" ELSE "raised"
    /\ UNCHANGED << applications, bucket, s3_prefix, allowed_key_patterns, registry,
                    credentials >>
    /\ UNCHANGED handlerVars /\ UNCHANGED assumeVars

NextEcr == CallGetEcr

SpecEcr == InitEcr /\ [][NextEcr]_vars

(***************************************************************************)
(* assume_role: one step per call of sts_client.assume_role and per        *)
(* time.sleep.  The code keeps no count of its attempts; failures, sleeps  *)
(* and waited record the history of the call and saturate at MaxAttempts.  *)
(***************************************************************************)
retry_wait_in_seconds == 5

\* line 30
RoleArn(account_id, account_role) ==
    "arn:aws:iam::" \o account_id \o ":role/" \o account_role

\* the Credentials of the response to the n-th call of sts_client.assume_role
StsCredentials(n) ==
    [AccessKeyId |-> "ASIA", SecretAccessKey |-> "secret", SessionToken |-> n]

Bump(n) == IF n < MaxAttempts THEN n + 1 ELSE n

\* lines 36-39 and 49-50: the call succeeds, the loop ends, the credentials
\* of this response are returned
StsSuccess ==
    /\ pc = "sts"
    /\ assuming_role' = FALSE
    /\ credentials' = StsCredentials(failures + 1)
    /\ pc' = "role_assumed"
    /\ UNCHANGED << role_arn, failures, sleeps, waited, raised >>
    /\ UNCHANGED resolverVars /\ UNCHANGED handlerVars

\* a retry loop that forgets to wait
StsClientError_NoSleep ==
    /\ pc = "sts"
    /\ assuming_role' = TRUE
    /\ failures' = Bump(failures)
    /\ pc' = "sts"
    /\ UNCHANGED << role_arn, sleeps, waited, raised, credentials >>
    /\ UNCHANGED resolverVars /\ UNCHANGED handlerVars

\* lines 40-47: the call raises ClientError, which the loop catches
StsClientError ==
    /\ pc = "sts"
    /\ assuming_role' = TRUE
    /\ failures' = Bump(failures)
    /\ pc' = "sleep"
    /\ UNCHANGED << role_arn, sleeps, waited, raised, credentials >>
    /\ UNCHANGED resolverVars /\ UNCHANGED handlerVars

\* line 48, then the loop test of line 33
SleepDone ==
    /\ pc = "sleep"
    /\ assuming_role
    /\ sleeps' = Bump(sleeps)
    /\ waited' = IF sleeps < MaxAttempts THEN waited + retry_wait_in_seconds ELSE waited
    /\ pc' = "sts"
    /\ UNCHANGED << role_arn, assuming_role, failures, raised, credentials >>
    /\ UNCHANGED resolverVars /\ UNCHANGED handlerVars

\* line 36: the call raises something that is no ClientError (no endpoint,
\* invalid parameters): nothing catches it
StsOtherError ==
    /\ pc = "sts"
    /\ raised' = "BotoCoreError"
    /\ pc' = "raised"
    /\ UNCHANGED << role_arn, assuming_role, failures, sleeps, waited, credentials >>
    /\ UNCHANGED resolverVars /\ UNCHANGED handlerVars

AccountIds == {"111111111111", "222222222222"}
AccountRoles == {"deploy", "admin", "set-version"}

InitAssume ==
    /\ pc = "sts" /\ raised = "" /\ credentials = None
    /\ \E account_id \in AccountIds, account_role \in AccountRoles :
           role_arn = RoleArn(account_id, account_role)
    /\ assuming_role = TRUE /\ failures = 0 /\ sleeps = 0 /\ waited = 0
    /\ IdleResolver /\ IdleHandler

NextAssume == StsSuccess \/ StsClientError \/ SleepDone \/ StsOtherError

SpecAssume == InitAssume /\ [][NextAssume]_vars

\* the interpreter always takes the next step of the running call
FairSpecAssume == SpecAssume /\ WF_vars(NextAssume)

(***************************************************************************)
(* lambda_handler, set_ssm_parameters and update_parameterstore.           *)
(***************************************************************************)
\* lines 319-322 (and 326-329, 333-336): the applications dict of the event,
\* or, when it is empty, the dict built from the legacy list of names
ApplicationsOf(given, names, tag_filters) ==
    IF DOMAIN given # {} THEN given
    ELSE [app \in { names[i] : i \in 1..Len(names) } |-> [tag_filters |-> tag_filters]]

ecr_applications ==
    ApplicationsOf(event.ecr_applications, event.ecr_repositories,
                   event.ecr_image_tag_filters)
lambda_applications ==
    ApplicationsOf(event.lambda_applications, event.lambda_names,
                   event.lambda_tag_filters)
frontend_applications ==
    ApplicationsOf(event.frontend_applications, event.frontend_names,
                   event.frontend_tag_filters)

\* a check that leaves the frontend names out
NamesOverlap_WithoutFrontend(ecr, frontend, lambda) ==
    Cardinality(DOMAIN ecr \cup DOMAIN lambda)
        # Cardinality(DOMAIN ecr) + Cardinality(DOMAIN lambda)

\* lines 366-368: len(set().union(ecr, frontend, lambda)) != sum of the lens
NamesOverlap(ecr, frontend, lambda) ==
    Cardinality(DOMAIN ecr \cup DOMAIN frontend \cup DOMAIN lambda)
        # Cardinality(DOMAIN ecr) + Cardinality(DOMAIN frontend)
          + Cardinality(DOMAIN lambda)

\* a check that compares the case as written
PrefixIsValid_CaseSensitive(ssm_prefix) ==
    ~(Len(ssm_prefix) = 0 \/ StartsWith(ssm_prefix, "aws"))

\* line 300
PrefixIsValid(ssm_prefix) ==
    ~(Len(ssm_prefix) = 0 \/ StartsWith(Lower(ssm_prefix), "aws"))

\* line 305
SsmName(ssm_prefix, application) == "/" \o ssm_prefix \o "/" \o application

Classes == << "lambda", "frontend", "ecr" >>    \* the order of lines 378-380
VersionsOf(c) ==
    IF c = "lambda" THEN lambda_versions
    ELSE IF c = "frontend" THEN frontend_versions
    ELSE ecr_versions
SetPc(k) == "set_" \o Classes[k]
WritePc(k) == "write_" \o Classes[k]
SetPcs == { SetPc(k) : k \in 1..3 }
WritePcs == { WritePc(k) : k \in 1..3 }

\* the S3 bucket and the ECR registry a run of the handler may find
HandlerObjects ==
    << [Key |-> "frontends/svc-a/ccc3333.zip", LastModified |-> 1, has_tags |-> TRUE,
        tags |-> << "ccc3333-SHA1" >>],
       [Key |-> "lambdas/svc-a/aaa1111.zip", LastModified |-> 1, has_tags |-> TRUE,
        tags |-> << "aaa1111-SHA1" >>],
       [Key |-> "lambdas/svc-b/bbb2222.jar", LastModified |-> 2, has_tags |-> TRUE,
        tags |-> << "bbb2222-SHA1" >>] >>
HandlerBuckets ==
    LET RECURSIVE Pick(_, _)
        Pick(K, i) == IF i > Len(HandlerObjects) THEN << >>
                      ELSE IF i \in K THEN << HandlerObjects[i] >> \o Pick(K, i + 1)
                      ELSE Pick(K, i + 1)
    IN  { Pick(K, 1) : K \in SUBSET (1..Len(HandlerObjects)) }
HandlerRegistries ==
    { [repositories |-> << >>, images |-> [n \in {"svc-a"} |-> << >>]],
      [repositories |-> << [repositoryName |-> "svc-a"] >>,
       images |-> [n \in {"svc-a"} |->
                     << [imageTags |-> << "eee5555-SHA1" >>, imagePushedAt |-> 1] >>]] }

\* lines 346-363: the three resolver calls (a call that raises ends the run)
GetVersions ==
    /\ pc = "handler_start"
    /\ \E bkt \in HandlerBuckets, reg \in HandlerRegistries :
        LET lambda_found ==
                IF /\ event.get_versions
                   /\ event.lambda_s3_bucket # ""
                   /\ DOMAIN lambda_applications # {}
                THEN get_s3_artifact_versions(lambda_applications, bkt,
                                              event.lambda_s3_prefix, LambdaPatterns)
                ELSE lambda_versions
            frontend_found ==
                IF /\ event.get_versions
                   /\ event.frontend_s3_bucket # ""
                   /\ DOMAIN frontend_applications # {}
                THEN get_s3_artifact_versions(frontend_applications, bkt,
                                              event.frontend_s3_prefix, FrontendPatterns)
                ELSE frontend_versions
            ecr_found ==
                IF event.get_versions /\ DOMAIN ecr_applications # {}
                THEN get_ecr_versions(ecr_applications, reg)
                ELSE [exc |-> "", versions |-> ecr_versions]
        IN  /\ lambda_versions' = lambda_found
            /\ frontend_versions' = frontend_found
            /\ IF ecr_found.exc # ""
               THEN /\ raised' = ecr_found.exc
                    /\ pc' = "raised"
                    /\ UNCHANGED ecr_versions
               ELSE /\ ecr_versions' = ecr_found.versions
                    /\ pc' = "versions_resolved"
                    /\ UNCHANGED raised
    /\ UNCHANGED << event, pending, puts, store, credentials >>
    /\ UNCHANGED resolverVars /\ UNCHANGED assumeVars

\* lines 365, 382-386: nothing is to be set
ReturnVersionsOnly ==
    /\ pc = "versions_resolved"
    /\ ~event.set_versions
    /\ pc' = "done"
    /\ UNCHANGED << raised, credentials >>
    /\ UNCHANGED resolverVars /\ UNCHANGED handlerVars /\ UNCHANGED assumeVars

\* lines 366-372
RaiseOnSharedName ==
    /\ pc = "versions_resolved"
    /\ event.set_versions
    /\ NamesOverlap(ecr_versions, frontend_versions, lambda_versions)
    /\ raised' = "ValueError"
    /\ pc' = "raised"
    /\ UNCHANGED credentials
    /\ UNCHANGED resolverVars /\ UNCHANGED handlerVars /\ UNCHANGED assumeVars

\* lines 373-375 and 28-33: assume_role is called
CallAssumeRole ==
    /\ pc = "versions_resolved"
    /\ event.set_versions
    /\ ~NamesOverlap(ecr_versions, frontend_versions, lambda_versions)
    /\ event.account_id # "" /\ event.role_to_assume # ""
    /\ role_arn' = RoleArn(event.account_id, event.role_to_assume)
    /\ assuming_role' = TRUE
    /\ pc' = "sts"
    /\ UNCHANGED << failures, sleeps, waited, raised, credentials >>
    /\ UNCHANGED resolverVars /\ UNCHANGED handlerVars

\* lines 373-377: no role to assume, credentials is None
UseDefaultCredentials ==
    /\ pc = "versions_resolved"
    /\ event.set_versions
    /\ ~NamesOverlap(ecr_versions, frontend_versions, lambda_versions)
    /\ ~(event.account_id # "" /\ event.role_to_assume # "")
    /\ credentials' = None
    /\ pc' = SetPc(1)
    /\ UNCHANGED raised
    /\ UNCHANGED resolverVars /\ UNCHANGED handlerVars /\ UNCHANGED assumeVars

\* line 374: assume_role has returned to the handler; its locals are gone
AssumeRoleReturns ==
    /\ pc = "role_assumed"
    /\ event # NoEvent
    /\ role_arn' = "" /\ assuming_role' = FALSE
    /\ failures' = 0 /\ sleeps' = 0 /\ waited' = 0
    /\ pc' = SetPc(1)
    /\ UNCHANGED << raised, credentials >>
    /\ UNCHANGED resolverVars /\ UNCHANGED handlerVars

\* lines 300-302: set_ssm_parameters refuses the prefix
RaiseOnInvalidPrefix ==
    /\ \E k \in 1..3 : pc = SetPc(k)
    /\ ~PrefixIsValid(event.ssm_prefix)
    /\ raised' = "ValueError"
    /\ pc' = "raised"
    /\ UNCHANGED credentials
    /\ UNCHANGED resolverVars /\ UNCHANGED handlerVars /\ UNCHANGED assumeVars

\* line 304: the loop over versions.items() starts
StartWrites ==
    /\ \E k \in 1..3 :
        /\ pc = SetPc(k)
        /\ pending' = DOMAIN VersionsOf(Classes[k])
        /\ pc' = WritePc(k)
    /\ PrefixIsValid(event.ssm_prefix)
    /\ UNCHANGED << event, lambda_versions, frontend_versions, ecr_versions, puts,
                    store, raised, credentials >>
    /\ UNCHANGED resolverVars /\ UNCHANGED assumeVars

\* lines 305-306 and 148-173: the put_parameter call for one item
PutCall(k, application) ==
    [Name |-> SsmName(event.ssm_prefix, application),
     Value |-> VersionsOf(Classes[k])[application],
     Type |-> "String", Overwrite |-> TRUE, credentials |-> credentials]

\* line 173: put_parameter succeeds, the loop goes on
PutParameter ==
    /\ \E k \in 1..3 :
        /\ pc = WritePc(k)
        /\ \E application \in pending :
            LET call == PutCall(k, application)
            IN  /\ puts' = Append(puts, [call |-> call, ok |-> TRUE])
                /\ store' = DictPut(store, call.Name, call.Value)
                /\ pending' = pending \ {application}
    /\ UNCHANGED << pc, event, lambda_versions, frontend_versions, ecr_versions,
                    raised, credentials >>
    /\ UNCHANGED resolverVars /\ UNCHANGED assumeVars

\* a publisher that catches the error of a write and goes on
PutParameterFails_Continues ==
    /\ \E k \in 1..3 :
        /\ pc = WritePc(k)
        /\ \E application \in pending :
            /\ puts' = Append(puts, [call |-> PutCall(k, application), ok |-> FALSE])
            /\ pending' = pending \ {application}
    /\ UNCHANGED << pc, event, lambda_versions, frontend_versions, ecr_versions,
                    store, raised, credentials >>
    /\ UNCHANGED resolverVars /\ UNCHANGED assumeVars

\* line 173: put_parameter raises; nothing catches it on the way out of
\* update_parameterstore, set_ssm_parameters and lambda_handler
PutParameterFails ==
    /\ \E k \in 1..3 :
        /\ pc = WritePc(k)
        /\ \E application \in pending :
            puts' = Append(puts, [call |-> PutCall(k, application), ok |-> FALSE])
    /\ raised' = "ClientError"
    /\ pc' = "raised"
    /\ UNCHANGED << event, lambda_versions, frontend_versions, ecr_versions,
                    pending, store, credentials >>
    /\ UNCHANGED resolverVars /\ UNCHANGED assumeVars

\* line 304: the loop is over; the next set_ssm_parameters call, or the return
FinishWrites ==
    /\ \E k \in 1..3 :
        /\ pc = WritePc(k)
        /\ pc' = IF k < 3 THEN SetPc(k + 1) ELSE "done"
    /\ pending = {}
    /\ UNCHANGED << raised, credentials >>
    /\ UNCHANGED resolverVars /\ UNCHANGED handlerVars /\ UNCHANGED assumeVars

\* the events of the model
NoFilters == [tag_filters |-> << >>]
GivenVersions ==
    { [ecr |-> EmptyDict, frontend |-> EmptyDict, lambda |-> EmptyDict],
      [ecr |-> [n \in {"svc-a"} |-> "eee5555"], frontend |-> EmptyDict,
       lambda |-> [n \in {"svc-a"} |-> "aaa1111"]],
      [ecr |-> [n \in {"svc-c"} |-> "fff6666"],
       frontend |-> [n \in {"svc-b"} |-> "ddd4444"], lambda |-> EmptyDict] }
NameLists == { << >>, << "svc-a" >>, << "svc-b" >>, << "svc-a", "svc-b" >> }
AsDict(names) == [n \in { names[i] : i \in 1..Len(names) } |-> NoFilters]
Events ==
    { [ ssm_prefix |-> prefix,
        get_versions |-> flags[1], set_versions |-> flags[2],
        ecr_applications |-> AsDict(names[1]),
        ecr_repositories |-> << >>, ecr_image_tag_filters |-> << >>,
        lambda_s3_bucket |-> lambda_bucket, lambda_s3_prefix |-> "lambdas",
        lambda_applications |-> IF legacy THEN EmptyDict ELSE AsDict(names[2]),
        lambda_names |-> IF legacy THEN names[2] ELSE << >>,
        lambda_tag_filters |-> << >>,
        frontend_s3_bucket |-> "artifacts", frontend_s3_prefix |-> "frontends",
        frontend_applications |-> AsDict(names[3]),
        frontend_names |-> << >>, frontend_tag_filters |-> << >>,
        role_to_assume |-> role[2], account_id |-> role[1],
        versions |-> given ] :
      prefix \in {"", "aws-foo", "AwS", "prod"},
      flags \in BOOLEAN \X BOOLEAN,
      names \in { << >>, << "svc-a" >> } \X NameLists \X NameLists,
      legacy \in BOOLEAN,
      lambda_bucket \in {"", "artifacts"},
      role \in { << "", "" >>, << "111111111111", "" >>, << "111111111111", "deploy" >> },
      given \in GivenVersions }

\* lines 310-344
Init ==
    /\ pc = "handler_start" /\ raised = "" /\ credentials = None
    /\ event \in Events
    /\ ecr_versions = event.versions.ecr
    /\ frontend_versions = event.versions.frontend
    /\ lambda_versions = event.versions.lambda
    /\ pending = {} /\ puts = << >> /\ store = EmptyDict
    /\ IdleResolver /\ IdleAssume

Next ==
    \/ GetVersions \/ ReturnVersionsOnly \/ RaiseOnSharedName
    \/ CallAssumeRole \/ UseDefaultCredentials
    \/ StsSuccess \/ StsClientError \/ SleepDone \/ StsOtherError
    \/ AssumeRoleReturns
    \/ RaiseOnInvalidPrefix \/ StartWrites \/ PutParameter \/ PutParameterFails
    \/ FinishWrites

Spec == Init /\ [][Next]_vars

(***************************************************************************)
(* Claims about get_s3_artifact_versions, checked under SpecS3.            *)
(***************************************************************************)
\* the prefix the resolver lists for an application (line 205)
PrefixOf(a) == (IF s3_prefix # "" THEN s3_prefix \o "/" ELSE "") \o a \o "/"

\* the first tag of the object that ends in -SHA1
FirstSha1Tag(obj) ==
    obj.tags[CHOOSE i \in 1..Len(obj.tags) :
                /\ EndsWith(obj.tags[i], SHA1)
                /\ \A j \in 1..(i - 1) : ~EndsWith(obj.tags[j], SHA1)]

\* object i of the bucket qualifies for application a as the claims say: it is
\* under the prefix, its key matches an allowed pattern, its tag set has a tag
\* ending in -SHA1 and contains every required tag filter
Qualifies(i, a) ==
    LET obj == bucket[i]
        filters == applications[a].tag_filters
    IN  /\ StartsWith(obj.Key, PrefixOf(a))
        /\ \E p \in 1..Len(allowed_key_patterns) : ReSearch(allowed_key_patterns[p], obj.Key)
        /\ obj.has_tags
        /\ \E t \in 1..Len(obj.tags) : EndsWith(obj.tags[t], SHA1)
        /\ \A f \in 1..Len(filters) : \E t \in 1..Len(obj.tags) : obj.tags[t] = filters[f]

\* ... and the first of its -SHA1 tags has text before its first "-SHA1"
QualifiesWithVersion(i, a) ==
    /\ Qualifies(i, a)
    /\ ~StartsWith(FirstSha1Tag(bucket[i]), SHA1)

\* the most recently modified object of Q (the first listed, among equals)
Newest(Q) ==
    CHOOSE i \in Q : \A j \in Q :
        \/ bucket[i].LastModified > bucket[j].LastModified
        \/ bucket[i].LastModified = bucket[j].LastModified /\ i <= j

\* the result for application a is the version of the newest object of Q, and a
\* is absent when Q is empty
SelectsNewestOf(Q, a) ==
    IF Q = {} THEN a \notin DOMAIN versions
    ELSE /\ a \in DOMAIN versions
         /\ versions[a] = SplitFirst(FirstSha1Tag(bucket[Newest(Q)]), SHA1)

\* C4 as stated: the version comes from the most recently modified object
\* among those whose key matches, that carry a -SHA1 tag and every tag filter.
C4_Original ==
    pc = "returned" =>
        \A a \in DOMAIN applications :
            SelectsNewestOf({ i \in 1..Len(bucket) : Qualifies(i, a) }, a)

\* C4 (amended): the version comes from the most recently modified object
\* (the first listed among equally recent ones) among those whose key matches
\* an allowed pattern, whose tags hold a -SHA1 tag and every required tag
\* filter, and whose first -SHA1 tag gives a non-empty version; newer objects
\* that do not qualify are skipped; with no such object the artifact is absent.
C4_NewestQualifyingObject ==
    pc = "returned" =>
        \A a \in DOMAIN applications :
            SelectsNewestOf({ i \in 1..Len(bucket) : QualifiesWithVersion(i, a) }, a)

\* C4 witness: a version was recorded from an object older than a listed,
\* pattern-matching object that does not qualify
C4_Witness ==
    /\ pc = "returned"
    /\ \E a \in DOMAIN versions :
         \E i, j \in 1..Len(bucket) :
            /\ QualifiesWithVersion(i, a)
            /\ ~Qualifies(j, a)
            /\ StartsWith(bucket[j].Key, PrefixOf(a))
            /\ \E p \in 1..Len(allowed_key_patterns) :
                   ReSearch(allowed_key_patterns[p], bucket[j].Key)
            /\ bucket[j].LastModified > bucket[i].LastModified
            /\ versions[a] = SplitFirst(FirstSha1Tag(bucket[i]), SHA1)

\* C9 as stated: every recorded version, with "-SHA1" appended, is the tag it
\* was extracted from (a -SHA1 tag of an object listed for the application).
C9_RoundTrip ==
    pc = "returned" =>
        \A a \in DOMAIN versions :
            \E i \in 1..Len(bucket) :
                /\ StartsWith(bucket[i].Key, PrefixOf(a))
                /\ \E t \in 1..Len(bucket[i].tags) :
                       /\ EndsWith(bucket[i].tags[t], SHA1)
                       /\ versions[a] \o SHA1 = bucket[i].tags[t]

\* the example of the spec: artifact x, tag filter master-branch
ExampleApplications == [a \in {"x"} |-> [tag_filters |-> << "master-branch" >>]]
ExampleBucket(older_tags) ==
    << [Key |-> "app/x/aaa1111.zip", LastModified |-> 1, has_tags |-> TRUE,
        tags |-> older_tags],
       [Key |-> "app/x/bbb2222.zip", LastModified |-> 2, has_tags |-> TRUE,
        tags |-> << "other" >>] >>
ExampleCall(older_tags) ==
    /\ pc = "returned"
    /\ applications = ExampleApplications
    /\ s3_prefix = "app"
    /\ bucket = ExampleBucket(older_tags)

\* C10 as stated: on the example, with the older object tagged
\* master-branch-SHA1, the resolver selects aaa1111 for x.
C10_Original ==
    ExampleCall(<< "master-branch-SHA1" >>) =>
        "x" \in DOMAIN versions /\ versions["x"] = "aaa1111"

\* C10 (amended): on the example as given x gets no version (the tag
\* master-branch-SHA1 is not the tag master-branch the filter asks for); with
\* the older object tagged aaa1111-SHA1 and master-branch the resolver selects
\* aaa1111 for x, falling back past the newer object tagged other.
C10_ExampleFallsBack ==
    /\ ExampleCall(<< "master-branch-SHA1" >>) => "x" \notin DOMAIN versions
    /\ ExampleCall(<< "aaa1111-SHA1", "master-branch" >>) =>
           "x" \in DOMAIN versions /\ versions["x"] = "aaa1111"

\* C10 witness: the amended example was resolved
C10_Witness ==
    /\ ExampleCall(<< "aaa1111-SHA1", "master-branch" >>)
    /\ versions = [a \in {"x"} |-> "aaa1111"]

(***************************************************************************)
(* Claims about assume_role, checked under SpecAssume / FairSpecAssume.    *)
(***************************************************************************)
\* C6 as stated: every call of assume_role terminates: it returns, or it
\* fails fatally once the retries are exhausted.
C6_Terminates == <>(pc \in {"role_assumed", "raised"})

\* C7: a call that failed k times with a client error and then succeeded
\* returns the credentials of attempt k+1, has slept exactly k times, for
\* k * backoff seconds in total, and does not sleep after the success.
C7_WaitsOncePerFailure ==
    (pc = "role_assumed" /\ failures < MaxAttempts) =>
        /\ credentials = StsCredentials(failures + 1)
        /\ sleeps = failures
        /\ waited = failures * 5
        /\ ~assuming_role

\* C7 witness: two failures, then success on the third attempt
C7_Witness ==
    /\ pc = "role_assumed"
    /\ failures = 2
    /\ waited = 10
    /\ credentials = StsCredentials(3)

(***************************************************************************)
(* Claims about get_ecr_versions, checked under SpecEcr.                   *)
(***************************************************************************)
Listed(a) == \E r \in 1..Len(registry.repositories) :
                 registry.repositories[r].repositoryName = a

Sha1Count(image) ==
    Cardinality({ t \in 1..Len(image.imageTags) : EndsWith(image.imageTags[t], SHA1) })

\* C3 as stated: for a requested repository (no tag filters), the recorded
\* version is that of the image with the maximum push timestamp among the
\* images carrying exactly one tag ending in -SHA1.
C3_NewestSingleSha1Image ==
    pc # "ecr_call" =>
        \A a \in DOMAIN applications :
            LET images == registry.images[a]
                Q == { i \in 1..Len(images) : Sha1Count(images[i]) = 1 }
            IN  (Listed(a) /\ applications[a].tag_filters = << >> /\ Q # {}) =>
                    /\ a \in DOMAIN versions
                    /\ \E i \in Q :
                        /\ \A j \in Q : images[i].imagePushedAt >= images[j].imagePushedAt
                        /\ \E t \in 1..Len(images[i].imageTags) :
                               versions[a] \o SHA1 = images[i].imageTags[t]

\* C5 as stated, for get_ecr_versions: when a requested repository has no
\* image with a -SHA1 tag, the call does not raise and the artifact is absent
\* from the result.
C5_NoCandidateNoError ==
    (/\ pc # "ecr_call"
     /\ \E a \in DOMAIN applications :
            /\ Listed(a)
            /\ \A i \in 1..Len(registry.images[a]) : Sha1Count(registry.images[a][i]) = 0)
    => /\ raised = ""
       /\ \A a \in DOMAIN applications :
              (\A i \in 1..Len(registry.images[a]) : Sha1Count(registry.images[a][i]) = 0)
                  => a \notin DOMAIN versions

(***************************************************************************)
(* Claims about lambda_handler and set_ssm_parameters, checked under Spec. *)
(***************************************************************************)
\* two of the three dicts have a key in common
SharedName(a, b, c) ==
    \/ DOMAIN a \cap DOMAIN b # {}
    \/ DOMAIN a \cap DOMAIN c # {}
    \/ DOMAIN b \cap DOMAIN c # {}

\* the prefix is empty or begins with "aws" in any letter case
ReservedPrefix(prefix) ==
    \/ prefix = ""
    \/ /\ Len(prefix) >= 3
       /\ SubSeq(prefix, 1, 3) \in {"aws", "Aws", "aWs", "awS", "AWs", "AwS", "aWS", "AWS"}

\* C1 as stated: with set_versions, a name requested in two artifact classes
\* means no put_parameter happens in the run.
C1_Original ==
    (/\ event.set_versions
     /\ SharedName(ecr_applications, lambda_applications, frontend_applications))
    => puts = << >>

\* C1 (amended): with set_versions, when two of the version mappings the run
\* holds after resolution (resolved, or given in the event) share an artifact
\* name, the run raises before assume_role and the publisher are called: no
\* put_parameter happens.
C1_NoWriteOnSharedVersionName ==
    (/\ event.set_versions
     /\ pc # "handler_start"
     /\ SharedName(ecr_versions, frontend_versions, lambda_versions))
    => /\ puts = << >>
       /\ store = EmptyDict
       /\ pc \in {"versions_resolved", "raised"}

\* C1 witness: two resolved mappings share a name, the prefix is valid, and
\* the run has raised without a write
C1_Witness ==
    /\ pc = "raised" /\ raised = "ValueError"
    /\ event.get_versions /\ event.set_versions
    /\ event.versions.lambda = EmptyDict
    /\ DOMAIN lambda_versions \cap DOMAIN frontend_versions # {}
    /\ ~ReservedPrefix(event.ssm_prefix)
    /\ puts = << >>

\* C2: under an empty or aws-prefixed ssm_prefix (any letter case) the first
\* set_ssm_parameters call raises before any write, whatever the versions
\* mapping, so the run makes no put_parameter call and reaches no later
\* set_ssm_parameters call.
C2_NoWriteUnderReservedPrefix ==
    ReservedPrefix(event.ssm_prefix) =>
        /\ puts = << >>
        /\ store = EmptyDict
        /\ pc \notin WritePcs \cup {SetPc(2), SetPc(3)}
        /\ pc = "done" => ~event.set_versions

\* C2 witness: a run with the prefix AwS and a version to publish has raised
\* in set_ssm_parameters
C2_Witness ==
    /\ pc = "raised" /\ raised = "ValueError"
    /\ event.ssm_prefix = "AwS"
    /\ DOMAIN lambda_versions # {}
    /\ ~SharedName(ecr_versions, frontend_versions, lambda_versions)
    /\ puts = << >>

\* every name of the three version mappings
AllNames == DOMAIN lambda_versions \cup DOMAIN frontend_versions \cup DOMAIN ecr_versions

Attempted(n) ==
    \E i \in 1..Len(puts) : puts[i].call.Name = "/" \o event.ssm_prefix \o "/" \o n

\* C8 as stated: when a write has failed, the run has still attempted the
\* write of every other name by the time it ends.
C8_Original ==
    (/\ pc \in {"done", "raised"}
     /\ \E i \in 1..Len(puts) : ~puts[i].ok)
    => \A n \in AllNames : Attempted(n)

\* C8 (amended): there is no rollback and no continuation: a failed write is
\* the last write of the run (its error leaves set_ssm_parameters and
\* lambda_handler, and no later name of that mapping or of a later class is
\* attempted), and the writes made before it stay in the store.
C8_FailedWriteEndsRun ==
    \A i \in 1..Len(puts) :
        /\ ~puts[i].ok => (i = Len(puts) /\ pc = "raised" /\ raised = "ClientError")
        /\ puts[i].ok => /\ puts[i].call.Name \in DOMAIN store
                         /\ store[puts[i].call.Name] = puts[i].call.Value

\* C8 witness: a write succeeded, the next failed, and a name of a later
\* class was never attempted
C8_Witness ==
    /\ pc = "raised" /\ raised = "ClientError"
    /\ Len(puts) = 2 /\ puts[1].ok /\ ~puts[2].ok
    /\ puts[1].call.Name \in DOMAIN store
    /\ \E n \in AllNames : ~Attempted(n)

====
